---- MODULE Spec2Model ----
(***************************************************************************)
(* Model of the lekiwi heartbeat agent (factory-install/agent/src/main.rs):*)
(* the durable RobotState record, load_or_create_state, the monitoring     *)
(* loop's tick (collect, boot check, replace, save, report, drop), the     *)
(* GET /status reader and the tokio RwLock that both go through.           *)
(*                                                                         *)
(* The environment is the machine: its boot counter (the content of        *)
(* /proc/sys/kernel/random/boot_id), the wall clock read by Utc::now(),    *)
(* the hardware probes, the outcome of file writes and of the HTTP POST.   *)
(***************************************************************************)
EXTENDS Integers, Sequences, FiniteSets, TLC

\* ----- bounds of the model -----------------------------------------------
MaxTime == 1          \* wall-clock readings are drawn from 0..MaxTime
MaxBoots == 2         \* the machine boots at most MaxBoots times
NumUuids == 2         \* distinct values Uuid::new_v4() can return
MaxBootCount == 3     \* boot_count (a u32) is followed up to this value only
NumReaders == 1       \* concurrent GET /status requests

\* ----- program constants -------------------------------------------------
SERVO_COUNT_LEKIWI == 9

Time == 0..MaxTime
Uuids == 1..NumUuids
Readers == 1..NumReaders

\* what sysinfo can report as the number of CPUs
CpuCounts == {0, 4}

\* Option<T>
None == <<>>
Some(x) == <<x>>

RobotType == {"Lekiwi", "XLE", "Unknown"}

\* --robot-id given on the command line, or absent
ArgRobotIds == {None, Some("R1")}

\* ----- probes read by RobotType::detect ----------------------------------
\* realsense_node : /dev/realsense2 exists
\* v4l_dir        : /sys/class/video4linux exists
\* v4l_realsense  : read_dir succeeds and some entry's name contains "RealSense"
\* i2c_dev        : /dev/i2c-1 exists
\* i2c_scan       : i2cdetect -y 1 0x40 0x40 ran and printed its table
\* i2c_ack        : a device answered at address 0x40 during that scan
\* usb_vendor     : lsusb ran and its stdout names STMicroelectronics or FTDI
Probes ==
    { p \in [realsense_node : BOOLEAN, v4l_dir : BOOLEAN, v4l_realsense : BOOLEAN,
             i2c_dev : BOOLEAN, i2c_scan : BOOLEAN, i2c_ack : BOOLEAN,
             usb_vendor : BOOLEAN] :
        /\ p.v4l_realsense => p.v4l_dir
        /\ p.i2c_scan => p.i2c_dev
        /\ p.i2c_ack => p.i2c_scan }

\* line 125: stdout.contains("40"). i2cdetect's table labels its rows "00:",
\* "10:", ... "70:" whatever the scanned range, so the row label "40:" is in
\* every table it prints; the cell reads "40" on an answer and "--" otherwise.
stdout_contains_40(p) == p.i2c_scan

detect(p) ==
    IF (p.realsense_node \/ p.v4l_dir) /\ p.v4l_realsense THEN "XLE"
    ELSE IF p.i2c_dev /\ stdout_contains_40(p) THEN "Lekiwi"
    ELSE IF p.usb_vendor THEN "XLE"
    ELSE "Unknown"

\* the machines the agent is installed on: a bare board, a Lekiwi base with
\* its servo controller, an XLE with its RealSense camera, an XLE known only
\* by its USB arm controllers
NoHw == [realsense_node |-> FALSE, v4l_dir |-> FALSE, v4l_realsense |-> FALSE,
         i2c_dev |-> FALSE, i2c_scan |-> FALSE, i2c_ack |-> FALSE,
         usb_vendor |-> FALSE]
HwConfigs ==
    { NoHw,
      [NoHw EXCEPT !.i2c_dev = TRUE, !.i2c_scan = TRUE, !.i2c_ack = TRUE],
      [NoHw EXCEPT !.realsense_node = TRUE, !.v4l_dir = TRUE, !.v4l_realsense = TRUE],
      [NoHw EXCEPT !.usb_vendor = TRUE] }

\* ----- boot identifier ---------------------------------------------------
\* The kernel's boot_id is a function of the machine's boot counter; when the
\* file cannot be read the code substitutes a fresh random UUID.
get_boot_id(readable, boot, uuid) ==
    IF readable THEN <<"boot", boot>> ELSE <<"uuid", uuid>>

get_servo_positions(robot_type) ==
    IF robot_type = "Lekiwi" THEN Some([i \in 1..SERVO_COUNT_LEKIWI |-> 0]) ELSE None

\* cpus = 0 makes the average 0.0 / 0 = NaN
cpu_usage(cpus) == IF cpus = 0 THEN "NaN" ELSE "finite"

collect_system_info(robot_id, p) ==
    [robot_id |-> robot_id, robot_type |-> detect(p)]

\* a collector that reads the servo positions whatever the robot type is
collect_dynamic_info_always_servos(robot_type, now, cpus, node, boot_id) ==
    [timestamp |-> now,
     cpu_usage_percent |-> cpu_usage(cpus),
     servo_positions |-> get_servo_positions("Lekiwi"),
     realsense_connected |-> IF robot_type = "XLE" THEN Some(node) ELSE None,
     boot_id |-> boot_id]

collect_dynamic_info(robot_type, now, cpus, node, boot_id) ==
    [timestamp |-> now,
     cpu_usage_percent |-> cpu_usage(cpus),
     servo_positions |-> get_servo_positions(robot_type),
     realsense_connected |-> IF robot_type = "XLE" THEN Some(node) ELSE None,
     boot_id |-> boot_id]

\* ----- the durable record: serde_json encoding and decoding --------------
JNull == <<"null">>
JVal(v) == <<"val", v>>
JOption(o) == IF o = None THEN JNull ELSE JVal(o[1])
\* serde_json writes a non-finite float as null
JFloat(f) == IF f = "NaN" THEN JNull ELSE JVal(f)

to_json(state) ==
    [system_info |-> state.system_info,
     dynamic_info |->
        [timestamp |-> state.dynamic_info.timestamp,
         cpu_usage_percent |-> JFloat(state.dynamic_info.cpu_usage_percent),
         servo_positions |-> JOption(state.dynamic_info.servo_positions),
         realsense_connected |-> JOption(state.dynamic_info.realsense_connected),
         boot_id |-> state.dynamic_info.boot_id],
     first_seen |-> state.first_seen,
     last_boot |-> state.last_boot,
     boot_count |-> state.boot_count]

FromJOption(j) == IF j = JNull THEN None ELSE Some(j[2])

\* an f32 field does not accept null
json_parses(doc) == doc.dynamic_info.cpu_usage_percent # JNull

from_json(doc) ==
    [system_info |-> doc.system_info,
     dynamic_info |->
        [timestamp |-> doc.dynamic_info.timestamp,
         cpu_usage_percent |-> doc.dynamic_info.cpu_usage_percent[2],
         servo_positions |-> FromJOption(doc.dynamic_info.servo_positions),
         realsense_connected |-> FromJOption(doc.dynamic_info.realsense_connected),
         boot_id |-> doc.dynamic_info.boot_id],
     first_seen |-> doc.first_seen,
     last_boot |-> doc.last_boot,
     boot_count |-> doc.boot_count]

\* the file at STATE_FILE: absent, not JSON (truncated), or a JSON document
NoFile == <<>>
Garbage == <<"garbage">>
JsonFile(doc) == <<"json", doc>>

\* fs::read_to_string succeeded and serde_json::from_str returned Ok
record_readable(file) ==
    /\ file # NoFile
    /\ file # Garbage
    /\ json_parses(file[2])

\* ----- load_or_create_state ----------------------------------------------
\* t_boot, t_first, t_last are the wall-clock readings of lines 298, 311, 312
\* mutants of load_or_create_state: first_seen stamped anew on every load; the
\* stored snapshot kept instead of the fresh one
load_or_create_state_resets_first_seen(system_info, dynamic_info, file, t_boot, t_first, t_last) ==
    IF record_readable(file)
    THEN LET state == from_json(file[2])
             booted == IF state.dynamic_info.boot_id # dynamic_info.boot_id
                       THEN [state EXCEPT !.last_boot = t_boot,
                                          !.boot_count = @ + 1]
                       ELSE state
         IN  [booted EXCEPT !.system_info = system_info,
                            !.dynamic_info = dynamic_info,
                            !.first_seen = t_first]
    ELSE [system_info |-> system_info,
          dynamic_info |-> dynamic_info,
          first_seen |-> t_first,
          last_boot |-> t_last,
          boot_count |-> 1]

load_or_create_state_keeps_snapshot(system_info, dynamic_info, file, t_boot, t_first, t_last) ==
    IF record_readable(file)
    THEN LET state == from_json(file[2])
             booted == IF state.dynamic_info.boot_id # dynamic_info.boot_id
                       THEN [state EXCEPT !.last_boot = t_boot,
                                          !.boot_count = @ + 1]
                       ELSE state
         IN  [booted EXCEPT !.system_info = system_info]
    ELSE [system_info |-> system_info,
          dynamic_info |-> dynamic_info,
          first_seen |-> t_first,
          last_boot |-> t_last,
          boot_count |-> 1]

\* ... and the stored system_info kept beside the fresh snapshot
load_or_create_state_keeps_profile(system_info, dynamic_info, file, t_boot, t_first, t_last) ==
    IF record_readable(file)
    THEN LET state == from_json(file[2])
             booted == IF state.dynamic_info.boot_id # dynamic_info.boot_id
                       THEN [state EXCEPT !.last_boot = t_boot,
                                          !.boot_count = @ + 1]
                       ELSE state
         IN  [booted EXCEPT !.dynamic_info = dynamic_info]
    ELSE [system_info |-> system_info,
          dynamic_info |-> dynamic_info,
          first_seen |-> t_first,
          last_boot |-> t_last,
          boot_count |-> 1]

load_or_create_state(system_info, dynamic_info, file, t_boot, t_first, t_last) ==
    IF record_readable(file)
    THEN LET state == from_json(file[2])
             booted == IF state.dynamic_info.boot_id # dynamic_info.boot_id
                       THEN [state EXCEPT !.last_boot = t_boot,
                                          !.boot_count = @ + 1]
                       ELSE state
         IN  [booted EXCEPT !.system_info = system_info,
                            !.dynamic_info = dynamic_info]
    ELSE [system_info |-> system_info,
          dynamic_info |-> dynamic_info,
          first_seen |-> t_first,
          last_boot |-> t_last,
          boot_count |-> 1]

\* ----- save_state ---------------------------------------------------------
\* "ok": the file holds the pretty-printed JSON of the state.
\* "err_open": create_dir_all or the open failed, the file is as it was.
\* "err_write": fs::write truncated the file and then failed.
SaveOutcomes == {"ok", "err_open", "err_write"}

save_state(state, file, outcome) ==
    CASE outcome = "ok" -> JsonFile(to_json(state))
      [] outcome = "err_open" -> file
      [] outcome = "err_write" -> Garbage

\* ----- monitoring_loop: the reboot check of one tick ---------------------
\* mutants of the reboot check: the boot counted without stamping last_boot;
\* last_boot stamped on every tick
check_reboot_keeps_last_boot(state, new_dynamic, now) ==
    IF state.dynamic_info.boot_id # new_dynamic.boot_id
    THEN [state EXCEPT !.boot_count = @ + 1]
    ELSE state

check_reboot_always_stamps(state, new_dynamic, now) ==
    IF state.dynamic_info.boot_id # new_dynamic.boot_id
    THEN [state EXCEPT !.last_boot = now, !.boot_count = @ + 1]
    ELSE [state EXCEPT !.last_boot = now]

\* ... and a tick that compares the boot id against the snapshot it collected
\* itself, so that it never sees a change
check_reboot_compares_new(state, new_dynamic, now) ==
    IF new_dynamic.boot_id # new_dynamic.boot_id
    THEN [state EXCEPT !.last_boot = now, !.boot_count = @ + 1]
    ELSE state

check_reboot(state, new_dynamic, now) ==
    IF state.dynamic_info.boot_id # new_dynamic.boot_id
    THEN [state EXCEPT !.last_boot = now, !.boot_count = @ + 1]
    ELSE state

replace_dynamic(state, new_dynamic) ==
    [state EXCEPT !.dynamic_info = new_dynamic]

\* mutant of send_heartbeat: a failed POST is tried once more
send_heartbeat_retries(state, ok) ==
    IF ok THEN << [body |-> state, ok |-> TRUE] >>
    ELSE << [body |-> state, ok |-> FALSE], [body |-> state, ok |-> FALSE] >>

\* the attempts send_heartbeat makes for one call: one POST of the state
send_heartbeat(state, ok) == << [body |-> state, ok |-> ok] >>

\* mutant of the loop's error handling: a failed report ends the loop
after_heartbeat_stops(ok) == IF ok THEN "drop" ELSE "stopped"

\* where the loop goes after send_heartbeat returned: an Err is only logged
after_heartbeat(ok) == "drop"

\* ----- tokio::sync::RwLock ------------------------------------------------
can_write(w, rs) == ~w /\ rs = {}
\* mutant of the read lock: readers do not wait for the writer
can_read_ignores_writer(w) == TRUE
can_read(w) == ~w

\* ----- state ---------------------------------------------------------------
VARIABLES
    bootid,       \* the machine's boot counter (the kernel's boot_id)
    readable,     \* /proc/sys/kernel/random/boot_id can be read in this boot
    cpus,         \* the number of CPUs sysinfo finds in this boot
    hw,           \* what the probes of RobotType::detect find on this machine
    args,         \* the --robot-id argument of the service's command line
    clock,        \* the value returned by the latest Utc::now(): the wall
                  \*   clock, which may advance, repeat or be set back
    disk,         \* the file at STATE_FILE
    ppc,          \* main: "down", "loaded", "saved", "spawned", "serving", "exited"
    robot_state,  \* initial_state, then the RobotState inside the RwLock
    mpc,          \* monitoring_loop: "none", "tick", "collect", "check",
                  \*   "replace", "save", "send", "drop"
    new_dynamic,  \* monitoring_loop's local new_dynamic
    writer,       \* the write guard is held
    readers,      \* the handlers holding a read guard
    rpc,          \* get_status per request: "idle", "wait", "locked"
    resp,         \* the response a handler returns in the step just taken
    merged,       \* history: the state as of the latest completed merge
    sent          \* history: the report attempts of the latest tick

envVars == <<bootid, readable, cpus, hw, args, clock, disk>>
lockVars == <<writer, readers>>
histVars == <<merged, sent>>
vars == <<bootid, readable, cpus, hw, args, clock, disk, ppc, robot_state, mpc, new_dynamic,
          writer, readers, rpc, resp, merged, sent>>

NoState == [none |-> TRUE]
NoDynamic == [none |-> TRUE]
NoResp == [none |-> TRUE]

Init ==
    /\ bootid = 1
    /\ readable \in BOOLEAN
    /\ cpus \in CpuCounts
    /\ hw \in HwConfigs
    /\ args \in ArgRobotIds
    /\ clock = 0
    /\ disk = NoFile
    /\ ppc = "down"
    /\ robot_state = NoState
    /\ mpc = "none"
    /\ new_dynamic = NoDynamic
    /\ writer = FALSE
    /\ readers = {}
    /\ rpc = [r \in Readers |-> "idle"]
    /\ resp = NoResp
    /\ merged = NoState
    /\ sent = <<>>

\* the process is gone: its memory, tasks and lock go with it
ProcessGone ==
    /\ robot_state' = NoState
    /\ mpc' = "none"
    /\ new_dynamic' = NoDynamic
    /\ writer' = FALSE
    /\ readers' = {}
    /\ rpc' = [r \in Readers |-> "idle"]
    /\ resp' = NoResp
    /\ merged' = NoState
    /\ sent' = <<>>

\* ----- environment ---------------------------------------------------------
\* the machine reboots: a new boot_id, and the agent process is gone
Reboot ==
    /\ bootid < MaxBoots
    /\ bootid' = bootid + 1
    /\ readable' \in BOOLEAN
    /\ cpus' \in CpuCounts
    /\ ppc' = "down"
    /\ ProcessGone
    /\ UNCHANGED <<hw, args, clock, disk>>

\* the agent process is killed or restarted by its supervisor
Kill ==
    /\ ppc \notin {"down", "exited"}
    /\ ppc' = "down"
    /\ ProcessGone
    /\ UNCHANGED envVars

\* ----- main ----------------------------------------------------------------

\* line 408: the given id, or a fresh Uuid::new_v4()
robot_id_of(arg, uuid) == IF arg = None THEN <<"uuid", uuid>> ELSE <<"arg", arg[1]>>

\* main, lines 404-417: parse the arguments, pick the robot id and run
\* load_or_create_state (which collects both infos before it reads the file)
MainLoad ==
    /\ ppc \in {"down", "exited"}
    /\ \E uid \in Uuids, u \in Uuids, t0 \in Time :
         LET robot_id == robot_id_of(args, uid)
             system_info == collect_system_info(robot_id, hw)
             dynamic_info == collect_dynamic_info(system_info.robot_type, t0, cpus,
                                hw.realsense_node, get_boot_id(readable, bootid, u))
             found == record_readable(disk)
             differ == found /\ from_json(disk[2]).dynamic_info.boot_id
                                  # dynamic_info.boot_id
         IN  \E t1 \in (IF differ \/ ~found THEN Time ELSE {t0}),
                t2 \in (IF found THEN {t0} ELSE Time) :
               LET state == load_or_create_state(system_info, dynamic_info, disk,
                                                 t1, t1, t2)
               IN  /\ state.boot_count <= MaxBootCount
                   /\ robot_state' = state
                   /\ merged' = state
                   /\ clock' = IF found THEN t1 ELSE t2
    /\ ppc' = "loaded"
    /\ resp' = NoResp
    /\ UNCHANGED <<bootid, readable, cpus, hw, args, disk, mpc, new_dynamic, lockVars, rpc, sent>>

\* a main that only logged the error of the first write, as the tick does
MainSave_ignores_error ==
    /\ ppc = "loaded"
    /\ \E outcome \in SaveOutcomes : disk' = save_state(robot_state, disk, outcome)
    /\ ppc' = "saved"
    /\ resp' = NoResp
    /\ UNCHANGED <<bootid, readable, cpus, hw, args, clock, robot_state, mpc, new_dynamic, lockVars, rpc, histVars>>

\* main, line 420: save_state(&initial_state).await? returns the error from main
MainSave ==
    /\ ppc = "loaded"
    /\ \E outcome \in SaveOutcomes :
         /\ disk' = save_state(robot_state, disk, outcome)
         /\ IF outcome = "ok"
            THEN /\ ppc' = "saved"
                 /\ resp' = NoResp
                 /\ UNCHANGED <<robot_state, mpc, new_dynamic, lockVars, rpc,
                                histVars>>
            ELSE /\ ppc' = "exited"
                 /\ ProcessGone
    /\ UNCHANGED <<bootid, readable, cpus, hw, args, clock>>

\* main, lines 422-431: wrap the state in the RwLock and spawn monitoring_loop
MainSpawn ==
    /\ ppc = "saved"
    /\ ppc' = "spawned"
    /\ mpc' = "tick"
    /\ resp' = NoResp
    /\ UNCHANGED <<envVars, robot_state, new_dynamic, lockVars, rpc, histVars>>

\* main, lines 434-443: bind the listener and serve; a bind error ends main
MainBind ==
    /\ ppc = "spawned"
    /\ \E ok \in BOOLEAN :
         IF ok
         THEN /\ ppc' = "serving"
              /\ resp' = NoResp
              /\ UNCHANGED <<robot_state, mpc, new_dynamic, lockVars, rpc,
                             histVars>>
         ELSE /\ ppc' = "exited"
              /\ ProcessGone
    /\ UNCHANGED envVars

\* ----- monitoring_loop ----------------------------------------------------
\* where the loop goes after save_state returned: an Err is only logged
after_save_skips_report(outcome) == IF outcome = "ok" THEN "send" ELSE "drop"
after_save(outcome) == "send"

\* line 346: interval.tick() fired and the write guard is acquired
MonitorAcquire ==
    /\ mpc = "tick"
    /\ can_write(writer, readers)
    /\ writer' = TRUE
    /\ mpc' = "collect"
    /\ sent' = <<>>
    /\ resp' = NoResp
    /\ UNCHANGED <<envVars, ppc, robot_state, new_dynamic, readers, rpc,
                   merged>>

\* line 347
MonitorCollect ==
    /\ mpc = "collect"
    /\ \E t \in Time, u \in Uuids :
         /\ new_dynamic' = collect_dynamic_info(robot_state.system_info.robot_type,
                              t, cpus, hw.realsense_node,
                              get_boot_id(readable, bootid, u))
         /\ clock' = t
    /\ mpc' = "check"
    /\ resp' = NoResp
    /\ UNCHANGED <<bootid, readable, cpus, hw, args, disk, ppc, robot_state, lockVars, rpc, histVars>>

\* lines 350-354
MonitorCheck ==
    /\ mpc = "check"
    /\ \E t \in (IF robot_state.dynamic_info.boot_id # new_dynamic.boot_id
                 THEN Time ELSE {clock}) :
         /\ check_reboot(robot_state, new_dynamic, t).boot_count <= MaxBootCount
         /\ robot_state' = check_reboot(robot_state, new_dynamic, t)
         /\ clock' = t
    /\ mpc' = "replace"
    /\ resp' = NoResp
    /\ UNCHANGED <<bootid, readable, cpus, hw, args, disk, ppc, new_dynamic, lockVars, rpc, histVars>>

\* line 356
MonitorReplace ==
    /\ mpc = "replace"
    /\ robot_state' = replace_dynamic(robot_state, new_dynamic)
    /\ new_dynamic' = NoDynamic
    /\ merged' = robot_state'
    /\ mpc' = "save"
    /\ resp' = NoResp
    /\ UNCHANGED <<envVars, ppc, lockVars, rpc, sent>>

\* lines 359-361
MonitorSave ==
    /\ mpc = "save"
    /\ \E outcome \in SaveOutcomes :
         /\ disk' = save_state(robot_state, disk, outcome)
         /\ mpc' = after_save(outcome)
    /\ resp' = NoResp
    /\ UNCHANGED <<bootid, readable, cpus, hw, args, clock, ppc, robot_state, new_dynamic, lockVars, rpc,
                   histVars>>

\* lines 364-366: the POST returns, fails or times out
MonitorSend ==
    /\ mpc = "send"
    /\ \E ok \in BOOLEAN :
         /\ sent' = sent \o send_heartbeat(robot_state, ok)
         /\ mpc' = after_heartbeat(ok)
    /\ resp' = NoResp
    /\ UNCHANGED <<envVars, ppc, robot_state, new_dynamic, lockVars, rpc, merged>>

\* a loop that goes back to interval.tick() with the write guard still held
MonitorDrop_keeps_guard ==
    /\ mpc = "drop"
    /\ mpc' = "tick"
    /\ resp' = NoResp
    /\ UNCHANGED <<envVars, ppc, robot_state, new_dynamic, lockVars, rpc, histVars>>

\* lines 368-386: drop the write guard, then the resident-memory self-check,
\* which only logs
MonitorDrop ==
    /\ mpc = "drop"
    /\ writer' = FALSE
    /\ mpc' = "tick"
    /\ resp' = NoResp
    /\ UNCHANGED <<envVars, ppc, robot_state, new_dynamic, readers, rpc, histVars>>

\* ----- get_status ----------------------------------------------------------
\* a GET /status request arrives at the listener
StatusRequest(r) ==
    /\ ppc = "serving"
    /\ rpc[r] = "idle"
    /\ rpc' = [rpc EXCEPT ![r] = "wait"]
    /\ resp' = NoResp
    /\ UNCHANGED <<envVars, ppc, robot_state, mpc, new_dynamic, lockVars, histVars>>

\* line 392: robot_state.read().await
StatusAcquire(r) ==
    /\ rpc[r] = "wait"
    /\ can_read(writer)
    /\ readers' = readers \cup {r}
    /\ rpc' = [rpc EXCEPT ![r] = "locked"]
    /\ resp' = NoResp
    /\ UNCHANGED <<envVars, ppc, robot_state, mpc, new_dynamic, writer, histVars>>

\* line 393: the handler returns a clone of the state as the response body;
\* the read guard is dropped
get_status(r, state) == [reader |-> r, body |-> state]

StatusRespond(r) ==
    /\ rpc[r] = "locked"
    /\ resp' = get_status(r, robot_state)
    /\ readers' = readers \ {r}
    /\ rpc' = [rpc EXCEPT ![r] = "idle"]
    /\ UNCHANGED <<envVars, ppc, robot_state, mpc, new_dynamic, writer, histVars>>

Next ==
    \/ Reboot
    \/ Kill
    \/ MainLoad
    \/ MainSave
    \/ MainSpawn
    \/ MainBind
    \/ MonitorAcquire
    \/ MonitorCollect
    \/ MonitorCheck
    \/ MonitorReplace
    \/ MonitorSave
    \/ MonitorSend
    \/ MonitorDrop
    \/ \E r \in Readers : StatusRequest(r)
    \/ \E r \in Readers : StatusAcquire(r)
    \/ \E r \in Readers : StatusRespond(r)

Spec == Init /\ [][Next]_vars

\* ===== properties ===========================================================
\* the process holds a RobotState before and after the step
Alive == robot_state # NoState /\ robot_state' # NoState
\* the step is load_or_create_state reading a durable record successfully
LoadsRecord == robot_state = NoState /\ robot_state' # NoState /\ record_readable(disk)
\* the step is the reboot check of a tick
CheckStep == mpc = "check" /\ mpc' = "replace"
BootIdChanged == robot_state.dynamic_info.boot_id # new_dynamic.boot_id

\* C1: first_seen never changes once the state exists: no step of the running
\* process (ticks included) changes it, and a start that reads a durable
\* record yields the first_seen stored in that record.
C1_FirstSeenStable ==
    [][ /\ Alive => robot_state'.first_seen = robot_state.first_seen
        /\ LoadsRecord => robot_state'.first_seen = disk[2].first_seen ]_vars

\* C1 witness: a restart has loaded a record, after a reboot was counted, whose
\* first_seen differs from every time read during the load
C1_Witness ==
    /\ ppc = "loaded"
    /\ record_readable(disk)
    /\ robot_state.boot_count > disk[2].boot_count
    /\ robot_state.first_seen = disk[2].first_seen
    /\ robot_state.first_seen # robot_state.last_boot
    /\ robot_state.first_seen # robot_state.dynamic_info.timestamp

C4_BootIdChangesOnlyOnReboot ==
    /\ mpc = "check" => ~BootIdChanged
    /\ (robot_state # NoState /\ bootid = 1) => robot_state.boot_count = 1

\* C5: a load that reads a record with boot_count = n gives n + 1, last_boot =
\* the load time and the stored first_seen when the boot identifier differs,
\* the stored boot_count and last_boot when it is the same; system_info and
\* dynamic_info are the freshly collected ones in both cases.
FreshSystemInfos == { collect_system_info(robot_id_of(args, u), hw) : u \in Uuids }
FreshDynamicInfos ==
    { collect_dynamic_info(detect(hw), t, cpus, hw.realsense_node,
                           get_boot_id(readable, bootid, u)) : t \in Time, u \in Uuids }

C5_LoadReconciles ==
    [][ LoadsRecord =>
          /\ IF disk[2].dynamic_info.boot_id # robot_state'.dynamic_info.boot_id
             THEN /\ robot_state'.boot_count = disk[2].boot_count + 1
                  /\ robot_state'.last_boot = clock'
                  /\ robot_state'.first_seen = disk[2].first_seen
             ELSE /\ robot_state'.boot_count = disk[2].boot_count
                  /\ robot_state'.last_boot = disk[2].last_boot
          /\ robot_state'.system_info \in FreshSystemInfos
          /\ robot_state'.dynamic_info \in FreshDynamicInfos ]_vars

\* C5 witness: a record with boot_count = 2 written in the previous boot has
\* been loaded after the machine rebooted and gave boot_count = 3
C5_Witness ==
    /\ ppc = "loaded"
    /\ record_readable(disk)
    /\ bootid = 2
    /\ robot_state.dynamic_info.boot_id = <<"boot", 2>>
    /\ disk[2].dynamic_info.boot_id # <<"boot", 2>>
    /\ disk[2].boot_count = 2
    /\ robot_state.boot_count = 3
    /\ robot_state.last_boot # disk[2].last_boot

\* C6 as stated: a load that finds no readable record returns boot_count = 1
\* and first_seen = last_boot.
C6_FreshStateOneInstant ==
    (ppc = "loaded" /\ ~record_readable(disk)) =>
        /\ robot_state.boot_count = 1
        /\ robot_state.first_seen = robot_state.last_boot

\* C7: every GET /status response is the state as of the latest completed
\* merge: never a state the tick in progress has half updated.
C7_NoTornRead ==
    resp # NoResp => resp.body = merged

\* C7 witness: a response given after a tick that counted a boot
C7_Witness ==
    /\ resp # NoResp
    /\ sent # <<>>
    /\ resp.body = sent[1].body
    /\ resp.body.boot_count >= 2

\* C8 as stated: a status request never has to wait for the report of the
\* tick in progress: while the POST is in flight the read lock is available.
C8_StatusNeedsNoNetwork ==
    \A r \in Readers : (rpc[r] = "wait" /\ mpc = "send") => can_read(writer)

\* C9: a failed report does not stop the loop: the tick goes on to drop the
\* lock with the state it merged, and a status read after that tick returns
\* that tick's state.
C9_ReportFailureTolerated ==
    [][ /\ (mpc = "send" /\ sent' # sent /\ ~sent'[Len(sent')].ok) =>
              /\ mpc' = "drop"
              /\ robot_state' = robot_state
              /\ robot_state' = merged'
        /\ (mpc = "drop" /\ mpc' # "drop" /\ ppc' = ppc) =>
              /\ mpc' = "tick"
              /\ ~writer'
        /\ (resp' # NoResp /\ sent' # <<>> /\ ~sent'[1].ok) =>
              resp'.body = sent'[1].body ]_vars

\* C9 witness: a status response given after a tick whose report failed and
\* which had merged a new boot
C9_Witness ==
    /\ resp # NoResp
    /\ sent # <<>>
    /\ ~sent[1].ok
    /\ resp.body = merged
    /\ resp.body.dynamic_info = sent[1].body.dynamic_info
    /\ resp.body.boot_count = 3

\* C10: a tick makes exactly one report attempt, none before its report step,
\* and the body is the state merged in that tick.
C10_OneReportPerTick ==
    /\ mpc \in {"collect", "check", "replace", "save", "send"} => sent = <<>>
    /\ mpc = "drop" =>
          /\ Len(sent) = 1
          /\ sent[1].body = merged
          /\ sent[1].body = robot_state
    /\ Len(sent) <= 1

\* C10 witness: a tick that counted a boot has made its one attempt, which failed
C10_Witness ==
    /\ mpc = "drop"
    /\ Len(sent) = 1
    /\ ~sent[1].ok
    /\ sent[1].body.boot_count >= 2
    /\ sent[1].body = merged

\* the step is the save_state call of a tick and the loop runs on after it
TickSaveStep == mpc = "save" /\ mpc' \notin {"save", "none"}
\* ... and it did not leave the record of the in-memory state on the disk
TickSaveFailed == TickSaveStep /\ disk' # JsonFile(to_json(robot_state))
\* the step is the send_heartbeat call of a tick
TickSendStep == mpc = "send" /\ mpc' \notin {"send", "none"}

\* C11: when save_state fails in a tick the in-memory state keeps the merged
\* values (nothing is rolled back) and the tick goes on to the report step,
\* which posts that state; every tick comes to the persistence step again,
\* whatever the earlier ticks left on the disk.
C11_SaveFailureTolerated ==
    [][ /\ TickSaveFailed =>
              /\ robot_state' = robot_state
              /\ robot_state' = merged
              /\ mpc' = "send"
              /\ ppc' = ppc
        /\ TickSendStep =>
              /\ Len(sent') = Len(sent) + 1
              /\ sent'[Len(sent')].body = merged
              /\ robot_state' = merged
        /\ (mpc = "replace" /\ mpc' \notin {"replace", "none"}) => mpc' = "save" ]_vars

\* C11 witness: a tick is at its persistence step while the disk still holds
\* the torn file of an earlier tick's failed write, so that tick went on
\* through report and release, and persistence is attempted again
C11_Witness ==
    /\ mpc = "save"
    /\ disk = Garbage
    /\ robot_state = merged
    /\ robot_state.boot_count >= 2

\* the step is the save_state call of main (line 420) and it has returned
StartupSaveStep == ppc = "loaded" /\ ppc' \notin {"loaded", "down"}
\* the states of main before its first write has succeeded
BeforeFirstWrite == {"down", "loaded", "exited"}

\* C12: when the first write of the durable record fails, main returns: the
\* process ends before the monitoring loop has run a tick and before the Status
\* API has taken a request; the loop and the API only start after a successful
\* first write. A failed write inside a tick never ends the process.
C12_StartupSaveFatal ==
    [][ /\ (StartupSaveStep /\ disk' # JsonFile(to_json(robot_state))) =>
              /\ ppc' = "exited"
              /\ robot_state' = NoState
              /\ mpc' = "none"
        /\ (StartupSaveStep /\ ppc' # "exited") =>
              /\ disk' = JsonFile(to_json(robot_state))
              /\ robot_state' = robot_state
        /\ ppc' \in BeforeFirstWrite =>
              /\ mpc' = "none"
              /\ sent' = <<>>
              /\ resp' = NoResp
              /\ \A r \in Readers : rpc'[r] = "idle"
        /\ (mpc = "save" /\ ppc' = "exited") => (ppc = "spawned" /\ disk' = disk)
        /\ TickSaveFailed => ppc' = ppc ]_vars

\* C12 witness: the process has ended with no durable record at all, which only
\* the first write of the first start failing leaves behind
C12_Witness ==
    /\ ppc = "exited"
    /\ disk = NoFile
    /\ robot_state = NoState
    /\ mpc = "none"

\* C13: the robot identifier is stable: with no --robot-id given it is
\* generated once, so a restart that loads an earlier durable record holds the
\* robot_id stored in that record.
C13_RobotIdStable ==
    [][ (LoadsRecord /\ args = None) =>
            robot_state'.system_info.robot_id = disk[2].system_info.robot_id ]_vars

\* ===== the classifier on every probe result ================================
\* the agent is started, stopped and started again on a machine whose probes
\* answer in any of the ways of Probes; the monitoring loop is not scheduled
InitProbes ==
    /\ bootid = 1
    /\ readable \in BOOLEAN
    /\ cpus \in CpuCounts
    /\ hw \in Probes
    /\ args \in ArgRobotIds
    /\ clock = 0
    /\ disk = NoFile
    /\ ppc = "down"
    /\ robot_state = NoState
    /\ mpc = "none"
    /\ new_dynamic = NoDynamic
    /\ writer = FALSE
    /\ readers = {}
    /\ rpc = [r \in Readers |-> "idle"]
    /\ resp = NoResp
    /\ merged = NoState
    /\ sent = <<>>

NextStartup ==
    \/ Kill
    \/ MainLoad
    \/ MainSave
    \/ MainSpawn
    \/ MainBind

SpecClassify == InitProbes /\ [][NextStartup]_vars

\* what the probes show, in the words of the classifier's rules
CameraNode == hw.realsense_node
CameraNameMatch == hw.v4l_realsense
ActuatorProbeSucceeds == hw.i2c_dev /\ hw.i2c_ack
UsbVendorMatch == hw.usb_vendor
\* the robot type the running process has classified
Classified == robot_state.system_info.robot_type

\* C14: rule 1 of the classifier: when the depth-camera device node is
\* present, or an enumerated video-capture device's name matches the
\* depth-camera signature, detect returns XLE, whatever the other probes say.
C14_CameraEvidenceGivesXLE ==
    (robot_state # NoState /\ (CameraNode \/ CameraNameMatch)) => Classified = "XLE"

\* C15: first match wins in the order depth camera, actuator bus, USB vendor,
\* Unknown: a camera name match together with actuator-bus evidence gives XLE;
\* without camera evidence, the bus present with its address probe succeeding
\* gives Lekiwi even when a USB vendor matches; with no rule matching the
\* result is Unknown.
C15_FirstMatchWins ==
    robot_state # NoState =>
        /\ (CameraNameMatch /\ ActuatorProbeSucceeds) => Classified = "XLE"
        /\ (~CameraNode /\ ~CameraNameMatch /\ ActuatorProbeSucceeds) =>
               Classified = "Lekiwi"
        /\ (~CameraNode /\ ~CameraNameMatch /\ ~ActuatorProbeSucceeds /\ ~UsbVendorMatch) =>
               Classified = "Unknown"

\* the step is the collect_dynamic_info call of a tick (line 347)
TickCollectStep == mpc = "collect" /\ mpc' = "check"

\* C16: a tick never changes system_info: robot_id and robot_type of the shared
\* state stay what the start of the process set, through any number of ticks,
\* and every tick collects its dynamic snapshot for that robot_type.
C16_TickKeepsSystemInfo ==
    [][ /\ Alive => robot_state'.system_info = robot_state.system_info
        /\ TickCollectStep =>
              LET rt == robot_state.system_info.robot_type
              IN  /\ (new_dynamic'.servo_positions # None) <=> (rt = "Lekiwi")
                  /\ (new_dynamic'.realsense_connected # None) <=> (rt = "XLE")
                  /\ robot_state' = robot_state ]_vars

\* C16 witness: a later tick of the process (an earlier tick of it left the torn
\* file on the disk) has collected its snapshot for the XLE the process
\* classified at its start, under the robot id generated at that start
C16_Witness ==
    /\ mpc = "check"
    /\ disk = Garbage
    /\ robot_state.system_info = [robot_id |-> <<"uuid", 2>>, robot_type |-> "XLE"]
    /\ new_dynamic.realsense_connected = Some(TRUE)
    /\ new_dynamic.servo_positions = None

\* ===== the agent across a change of hardware ===============================
\* while the agent is stopped its board is fitted with other hardware (or the
\* disk is moved to another robot): the probes of the next start answer
\* differently, and the durable record is the one the old hardware left
HwChange ==
    /\ ppc \in {"down", "exited"}
    /\ hw' \in HwConfigs \ {hw}
    /\ resp' = NoResp
    /\ UNCHANGED <<bootid, readable, cpus, args, clock, disk, ppc, robot_state, mpc,
                   new_dynamic, lockVars, rpc, histVars>>

NextHw ==
    \/ Next
    \/ HwChange

SpecHw == Init /\ [][NextHw]_vars

\* the variant-specific fields of a snapshot are those of robot type rt
VariantFieldsOf(d, rt) ==
    /\ (d.servo_positions # None) <=> (rt = "Lekiwi")
    /\ (d.realsense_connected # None) <=> (rt = "XLE")

\* C17: in every reachable state, the one right after a restart that loaded a
\* record written under another robot type included, servo_positions is
\* present exactly for a Lekiwi, realsense_connected exactly for an XLE, and
\* both are absent for Unknown.
C17_VariantFieldsAgree ==
    /\ robot_state # NoState =>
          VariantFieldsOf(robot_state.dynamic_info, robot_state.system_info.robot_type)
    /\ new_dynamic # NoDynamic =>
          VariantFieldsOf(new_dynamic, robot_state.system_info.robot_type)

\* C17 witness: a start has just loaded the record a Lekiwi wrote (servo
\* positions in it, boot counters carried over) on what is now an XLE
C17_Witness ==
    /\ ppc = "loaded"
    /\ record_readable(disk)
    /\ disk[2].system_info.robot_type = "Lekiwi"
    /\ disk[2].dynamic_info.servo_positions # JNull
    /\ robot_state.system_info.robot_type = "XLE"
    /\ robot_state.dynamic_info.servo_positions = None
    /\ robot_state.dynamic_info.realsense_connected # None
    /\ robot_state.first_seen = disk[2].first_seen
    /\ robot_state.boot_count >= 2

\* what load_or_create_state returns when it reads the record of the state the
\* tick starts from, collects the snapshot the tick collected and reads the
\* clock as the tick's reboot check does
TickViaLoad ==
    load_or_create_state(robot_state.system_info, new_dynamic,
                         JsonFile(to_json(robot_state)), clock', clock', clock')
\* what the tick's check and replacement make of the record a start has read
\* and of the snapshot that start collected
LoadViaTick ==
    replace_dynamic(check_reboot(from_json(disk[2]), robot_state'.dynamic_info,
                                 robot_state'.last_boot),
                    robot_state'.dynamic_info)

\* C18: the merge of a tick and the reconciliation of load_or_create_state on a
\* record it could read agree on the boot counters: from the same prior
\* boot_id, boot_count, last_boot and first_seen and the same new boot
\* identifier both give the same boot_count, both stamp last_boot in the same
\* cases, and both keep first_seen.
C18_MergeMatchesLoad ==
    [][ /\ (CheckStep /\ record_readable(JsonFile(to_json(robot_state)))) =>
              /\ robot_state'.boot_count = TickViaLoad.boot_count
              /\ robot_state'.last_boot = TickViaLoad.last_boot
              /\ robot_state'.first_seen = TickViaLoad.first_seen
              /\ replace_dynamic(robot_state', new_dynamic) = TickViaLoad
        /\ LoadsRecord =>
              /\ robot_state'.boot_count = LoadViaTick.boot_count
              /\ robot_state'.last_boot = LoadViaTick.last_boot
              /\ robot_state'.first_seen = LoadViaTick.first_seen ]_vars

\* C18 witness: a tick has counted a changed boot identifier from a state
\* whose record is readable, at a clock reading that differs from the stored
\* last_boot
C18_Witness ==
    /\ mpc = "replace"
    /\ robot_state.dynamic_info.boot_id # new_dynamic.boot_id
    /\ robot_state.dynamic_info.cpu_usage_percent # "NaN"
    /\ robot_state.boot_count = 3
    /\ robot_state.last_boot = clock
    /\ robot_state.last_boot # merged.last_boot
    /\ merged.boot_count = 2

\* the durable record, read back, is the state s
RecordIs(file, s) == record_readable(file) /\ from_json(file[2]) = s

\* C19: a successful save_state, in a tick or at startup, leaves a durable
\* record equal to the in-memory state, the report of the tick carries that
\* same state, and neither changes until the exclusive section ends; a failed
\* save_state of a tick leaves the record of the last successful save as it was.
C19_DurableMatchesMemory ==
    [][ /\ TickSaveStep => (RecordIs(disk', robot_state') \/ disk' = disk)
        /\ (StartupSaveStep /\ ppc' = "saved") => RecordIs(disk', robot_state')
        /\ TickSendStep =>
              /\ sent'[Len(sent')].body = robot_state
              /\ disk' = disk
              /\ robot_state' = robot_state
        /\ (mpc = "drop" /\ mpc' = "tick") =>
              /\ disk' = disk
              /\ robot_state' = robot_state ]_vars

\* ===== the agent under fair scheduling =====================================
\* one machine boot with a readable boot_id: the agent is started, killed and
\* restarted at will, and while it runs its tasks are scheduled fairly
InitLive ==
    /\ Init
    /\ readable

NextLive ==
    \/ Kill
    \/ MainLoad
    \/ MainSave
    \/ MainSpawn
    \/ MainBind
    \/ MonitorAcquire
    \/ MonitorCollect
    \/ MonitorCheck
    \/ MonitorReplace
    \/ MonitorSave
    \/ MonitorSend
    \/ MonitorDrop
    \/ \E r \in Readers : StatusRequest(r)
    \/ \E r \in Readers : StatusAcquire(r)
    \/ \E r \in Readers : StatusRespond(r)

\* every await inside the exclusive section returns: the collection and the
\* file write are synchronous calls, the POST is cut off by the 5 s timeout of
\* its client, and the guard is dropped right after
MonitorFair ==
    /\ WF_vars(MonitorCollect)
    /\ WF_vars(MonitorCheck)
    /\ WF_vars(MonitorReplace)
    /\ WF_vars(MonitorSave)
    /\ WF_vars(MonitorSend)
    /\ WF_vars(MonitorDrop)

\* tokio's RwLock queues its waiters in order of arrival: a reader that waits
\* gets the lock at a release of the write guard, however often the loop
\* takes the guard again; the handler then answers
StatusFair ==
    \A r \in Readers : SF_vars(StatusAcquire(r)) /\ WF_vars(StatusRespond(r))

SpecLive == InitLive /\ [][NextLive]_vars /\ MonitorFair /\ StatusFair

\* the process has ended (killed, or main returned an error)
ProcessEnded == ppc \in {"down", "exited"}

\* C20: under fair scheduling of the lock every GET /status request that
\* waits for the read guard is answered, unless the process ends first: the
\* loop drops the write guard at the end of every tick and no step it takes
\* under the guard lasts forever.
C20_StatusAnswered ==
    \A r \in Readers :
        (rpc[r] = "wait") ~> ((resp # NoResp /\ resp.reader = r) \/ ProcessEnded)

\* C20 witness: a request waits for the read guard while the tick holds the
\* write guard inside send_heartbeat
C20_Witness ==
    /\ rpc[1] = "wait"
    /\ writer
    /\ mpc = "send"
    /\ ppc = "serving"

====
